---- MODULE Spec2Model ----
(***************************************************************************)
(* Model of llm/DeepSeek-R1/convert.py: a straight-line script that        *)
(* constructs an RKLLM converter, calls load_huggingface, build and        *)
(* export_rkllm on it and, after each call, prints a message and calls     *)
(* exit(ret) when the returned status is not 0.                            *)
(*                                                                         *)
(* One action per statement of the script.  The library is opaque: each    *)
(* call returns an arbitrary integer status drawn from Statuses.           *)
(***************************************************************************)
EXTENDS Integers, Sequences, FiniteSets

\* Statuses the library may return range over -StatusBound..StatusBound.
\* The range reaches past 256 on both sides so that statuses that are
\* multiples of 256 occur.
StatusBound == 260

Statuses == (0 - StatusBound)..StatusBound

VARIABLES
    pc,        \* the statement the interpreter executes next
    globals,   \* module namespace: bound names |-> values
    objects,   \* number of RKLLM objects constructed so far
    calls,     \* the library calls made so far, in order, with their statuses
    stdout,    \* the lines printed so far
    exitArg,   \* <<>> until exit() is called, then <<value passed>>
    exitCode   \* <<>> while the process runs, then <<code seen by the parent>>

vars == <<pc, globals, objects, calls, stdout, exitArg, exitCode>>

\* Python's None (model_lora = None).
None == "None"

\* Binding a name in the module namespace (an assignment statement).
Bind(g, name, v) ==
    [n \in (DOMAIN g) \cup {name} |-> IF n = name THEN v ELSE g[n]]

\* Variant of LoadArgs: the device hint is 'cpu'.
LoadArgsCpu(g) ==
    [model |-> g["modelpath"], model_lora |-> None, device |-> "cpu"]

\* The keyword arguments of llm.load_huggingface(...).
LoadArgs(g) ==
    [model |-> g["modelpath"], model_lora |-> None, device |-> "cuda"]

\* The keyword arguments of llm.build(...).
BuildArgs(g) ==
    [do_quantization |-> TRUE, optimization_level |-> 1,
     quantized_dtype |-> "w8a8", quantized_algorithm |-> "normal",
     target_platform |-> "rk3588", num_npu_core |-> 3]

\* Variant of ExportArgs: the artifact is written to the model path.
ExportArgsFromModel(g) ==
    [export_path |-> g["modelpath"]]

\* The positional argument of llm.export_rkllm(...).
ExportArgs(g) ==
    [export_path |-> "./deepseek-r1-1.5b-w8a8.rkllm"]

\* The exit code the parent process observes when exit(v) is called with an
\* integer v: the low 8 bits of v.
ExitStatus(v) == v % 256

\* A library call on the object bound to llm: the call is recorded with the
\* status it returns, and the status is bound to ret.
LibCall(fn, args, r, next) ==
    /\ calls' = Append(calls, [obj |-> globals["llm"], fn |-> fn,
                               args |-> args, status |-> r])
    /\ globals' = Bind(globals, "ret", r)
    /\ pc' = next
    /\ UNCHANGED <<objects, stdout, exitArg, exitCode>>

\* `if ret != 0:` -- enter the failure block or skip it.
Check(here, fail, ok) ==
    /\ pc = here
    /\ pc' = IF globals["ret"] # 0 THEN fail ELSE ok
    /\ UNCHANGED <<globals, objects, calls, stdout, exitArg, exitCode>>

\* print(msg)
PrintLine(here, msg, next) ==
    /\ pc = here
    /\ stdout' = Append(stdout, msg)
    /\ pc' = next
    /\ UNCHANGED <<globals, objects, calls, exitArg, exitCode>>

\* exit(ret): the process ends with the status derived from ret.
Exit(here) ==
    /\ pc = here
    /\ exitArg' = <<globals["ret"]>>
    /\ exitCode' = <<ExitStatus(globals["ret"])>>
    /\ pc' = "exited"
    /\ UNCHANGED <<globals, objects, calls, stdout>>

Init ==
    /\ pc = "assign_modelpath"
    /\ globals = [n \in {} |-> 0]
    /\ objects = 0
    /\ calls = <<>>
    /\ stdout = <<>>
    /\ exitArg = <<>>
    /\ exitCode = <<>>

\* modelpath = 'DeepSeek-R1-Distill-Qwen-1.5B'
AssignModelpath ==
    /\ pc = "assign_modelpath"
    /\ globals' = Bind(globals, "modelpath", "DeepSeek-R1-Distill-Qwen-1.5B")
    /\ pc' = "construct"
    /\ UNCHANGED <<objects, calls, stdout, exitArg, exitCode>>

\* llm = RKLLM()
Construct ==
    /\ pc = "construct"
    /\ objects' = objects + 1
    /\ globals' = Bind(globals, "llm", objects + 1)
    /\ pc' = "load"
    /\ UNCHANGED <<calls, stdout, exitArg, exitCode>>

\* ret = llm.load_huggingface(model=modelpath, model_lora=None, device='cuda')
LoadHuggingface ==
    /\ pc = "load"
    /\ \E r \in Statuses :
          LibCall("load_huggingface", LoadArgs(globals), r, "check_load")

\* Variant of CheckLoad: a failed load is retried.
CheckLoadRetry ==
    /\ pc = "check_load"
    /\ pc' = IF globals["ret"] # 0 THEN "load" ELSE "build"
    /\ UNCHANGED <<globals, objects, calls, stdout, exitArg, exitCode>>

CheckLoad == Check("check_load", "print_load", "build")

PrintLoadFailed == PrintLine("print_load", "Load model failed!", "exit_load")

\* Variant of ExitLoad: the exit is missing and the script carries on.
ExitLoadFallThrough ==
    /\ pc = "exit_load"
    /\ pc' = "build"
    /\ UNCHANGED <<globals, objects, calls, stdout, exitArg, exitCode>>

ExitLoad == Exit("exit_load")

\* ret = llm.build(do_quantization=True, ...)
Build ==
    /\ pc = "build"
    /\ \E r \in Statuses :
          LibCall("build", BuildArgs(globals), r, "check_build")

\* Variant of CheckBuild: the test is `ret == 0`.
CheckBuildInverted ==
    /\ pc = "check_build"
    /\ pc' = IF globals["ret"] = 0 THEN "print_build" ELSE "export"
    /\ UNCHANGED <<globals, objects, calls, stdout, exitArg, exitCode>>

CheckBuild == Check("check_build", "print_build", "export")

\* Variant of PrintBuildFailed: the message of the load step is printed.
PrintBuildFailedWrongMessage ==
    PrintLine("print_build", "Load model failed!", "exit_build")

PrintBuildFailed == PrintLine("print_build", "Build model failed!", "exit_build")

\* Variant of ExitBuild: exit(1) instead of exit(ret).
ExitBuildOne ==
    /\ pc = "exit_build"
    /\ exitArg' = <<1>>
    /\ exitCode' = <<ExitStatus(1)>>
    /\ pc' = "exited"
    /\ UNCHANGED <<globals, objects, calls, stdout>>

ExitBuild == Exit("exit_build")

\* ret = llm.export_rkllm("./deepseek-r1-1.5b-w8a8.rkllm")
ExportRkllm ==
    /\ pc = "export"
    /\ \E r \in Statuses :
          LibCall("export_rkllm", ExportArgs(globals), r, "check_export")

\* Variant of CheckExport: the test is `ret == 0`.
CheckExportInverted ==
    /\ pc = "check_export"
    /\ pc' = IF globals["ret"] = 0 THEN "print_export" ELSE "eof"
    /\ UNCHANGED <<globals, objects, calls, stdout, exitArg, exitCode>>

CheckExport == Check("check_export", "print_export", "eof")

PrintExportFailed == PrintLine("print_export", "Export model failed!", "exit_export")

ExitExport == Exit("exit_export")

\* The interpreter reaches the end of the script: the process ends with
\* status 0 and exit() has not been called.
EndOfScript ==
    /\ pc = "eof"
    /\ exitCode' = <<0>>
    /\ pc' = "end"
    /\ UNCHANGED <<globals, objects, calls, stdout, exitArg>>

Next ==
    \/ AssignModelpath
    \/ Construct
    \/ LoadHuggingface
    \/ CheckLoad
    \/ PrintLoadFailed
    \/ ExitLoad
    \/ Build
    \/ CheckBuild
    \/ PrintBuildFailed
    \/ ExitBuild
    \/ ExportRkllm
    \/ CheckExport
    \/ PrintExportFailed
    \/ ExitExport
    \/ EndOfScript

Spec == Init /\ [][Next]_vars

\* The interpreter is single-threaded and synchronous and every library call
\* returns: as long as a statement remains, one is executed.
FairSpec == Spec /\ WF_vars(Next)

(***************************************************************************)
(* Vocabulary of the properties.                                           *)
(***************************************************************************)
Steps == {"load_huggingface", "build", "export_rkllm"}

Order == <<"load_huggingface", "build", "export_rkllm">>

Invoked(fn) == \E i \in DOMAIN calls : calls[i].fn = fn

NumCalls(fn) == Cardinality({i \in DOMAIN calls : calls[i].fn = fn})

ReturnedZero(fn) ==
    \E i \in DOMAIN calls : calls[i].fn = fn /\ calls[i].status = 0

ReturnedNonZero(fn) ==
    \E i \in DOMAIN calls : calls[i].fn = fn /\ calls[i].status # 0

\* i is the first call of the run that returned a non-zero status.
FirstFailure(i) ==
    /\ i \in DOMAIN calls
    /\ calls[i].status # 0
    /\ \A j \in 1..(i - 1) : calls[j].status = 0

SomeFailure == \E i \in DOMAIN calls : calls[i].status # 0

FullSuccess == \A fn \in Steps : ReturnedZero(fn)

Terminated == exitCode # <<>>

\* The statements of the failure block of a step, and the check before it.
FailurePath(fn) ==
    IF fn = "load_huggingface" THEN {"check_load", "print_load", "exit_load"}
    ELSE IF fn = "build" THEN {"check_build", "print_build", "exit_build"}
    ELSE {"check_export", "print_export", "exit_export"}

Message(fn) ==
    IF fn = "load_huggingface" THEN "Load model failed!"
    ELSE IF fn = "build" THEN "Build model failed!"
    ELSE "Export model failed!"

(***************************************************************************)
(* C1 -- propagation of the exit code.                                     *)
(***************************************************************************)

\* C1 (as stated): if step s is the first step to return a non-zero status
\* and it returns r, the process exits with exit code equal to r.
C1_ExitCodeEqualsStatus ==
    \A i \in DOMAIN calls :
        (FirstFailure(i) /\ Terminated) => exitCode = <<calls[i].status>>

\* C1 (amended): if step s is the first step to return a non-zero status and
\* it returns r, no later statement than the failure block of s runs, the
\* value handed to exit() is r, and the process exits with exit code
\* r mod 256 (which is r itself exactly when 1 <= r <= 255).
C1_ExitCodeIsStatusMod256 ==
    \A i \in DOMAIN calls :
        FirstFailure(i) =>
            /\ pc \in FailurePath(calls[i].fn) \cup {"exited"}
            /\ Terminated =>
                  /\ pc = "exited"
                  /\ exitArg = <<calls[i].status>>
                  /\ exitCode = <<calls[i].status % 256>>
                  /\ (calls[i].status \in 1..255 =>
                         exitCode = <<calls[i].status>>)

\* A run in which build is the first failing step, with a status outside
\* 0..255, has exited.
C1_Witness ==
    /\ pc = "exited"
    /\ Len(calls) = 2
    /\ calls[2].status = 0 - 2
    /\ exitCode = <<254>>

(***************************************************************************)
(* C2 -- no step after a failing step.                                     *)
(***************************************************************************)

\* C2: if load_huggingface returns a non-zero status then neither build nor
\* export_rkllm is ever invoked, and if build returns a non-zero status then
\* export_rkllm is never invoked.
C2_NoStepAfterFailingStep ==
    /\ ReturnedNonZero("load_huggingface") =>
           ~Invoked("build") /\ ~Invoked("export_rkllm")
    /\ ReturnedNonZero("build") => ~Invoked("export_rkllm")

\* A run that ended after a failing load.
C2_Witness ==
    /\ Terminated
    /\ ReturnedNonZero("load_huggingface")
    /\ Len(calls) = 1

(***************************************************************************)
(* C3 -- the output file.                                                  *)
(***************************************************************************)

\* C3: export_rkllm is never invoked more than once nor with another path
\* than "./deepseek-r1-1.5b-w8a8.rkllm", no other call of the script names a
\* file to write, and on full success export_rkllm has been invoked exactly
\* once with that path.
C3_OneOutputFile ==
    /\ NumCalls("export_rkllm") <= 1
    /\ \A i \in DOMAIN calls :
          IF calls[i].fn = "export_rkllm"
          THEN calls[i].args = [export_path |-> "./deepseek-r1-1.5b-w8a8.rkllm"]
          ELSE "export_path" \notin DOMAIN calls[i].args
    /\ FullSuccess =>
          {calls[i].args.export_path :
              i \in {j \in DOMAIN calls : calls[j].fn = "export_rkllm"}}
            = {"./deepseek-r1-1.5b-w8a8.rkllm"}

\* A fully successful run has ended.
C3_Witness ==
    /\ pc = "end"
    /\ FullSuccess
    /\ NumCalls("export_rkllm") = 1

(***************************************************************************)
(* C4 -- exit code 0 on full success.                                      *)
(***************************************************************************)

\* C4: once load_huggingface, build and export_rkllm have each returned 0,
\* the script never calls exit and never prints a failure message, and it
\* runs to its end, where the process terminates with exit code 0.
C4_SuccessExitsZero ==
    /\ [](FullSuccess =>
            /\ stdout = <<>>
            /\ exitArg = <<>>
            /\ pc \in {"check_export", "eof", "end"}
            /\ Terminated => exitCode = <<0>>)
    /\ (FullSuccess ~> (pc = "end" /\ exitCode = <<0>>))

\* A fully successful run has terminated with code 0 and printed nothing.
C4_Witness ==
    /\ FullSuccess
    /\ Terminated
    /\ exitCode = <<0>>
    /\ stdout = <<>>

(***************************************************************************)
(* C5 -- the failure message.                                              *)
(***************************************************************************)

\* C5: at most one failure message is printed in a run; a printed message is
\* the message of the step that just returned a non-zero status, with no
\* library call after that step; exit is called only after the message has
\* been printed; and a run that ended after a non-zero status has printed
\* exactly that message.
C5_OneFailureMessage ==
    /\ Len(stdout) <= 1
    /\ stdout # <<>> =>
          /\ calls # <<>>
          /\ calls[Len(calls)].status # 0
          /\ stdout = <<Message(calls[Len(calls)].fn)>>
    /\ (exitArg # <<>> \/ pc \in {"exit_load", "exit_build", "exit_export"})
          => stdout # <<>>
    /\ (Terminated /\ SomeFailure) => stdout # <<>>

\* A run that failed at build has printed the build message and exited.
C5_Witness ==
    /\ pc = "exited"
    /\ stdout = <<"Build model failed!">>
    /\ ReturnedNonZero("build")

(***************************************************************************)
(* C6 -- the order of the library calls.                                   *)
(***************************************************************************)

\* C6: all library calls are made on the one converter object constructed
\* at the start, in the order load_huggingface, build, export_rkllm; build
\* is invoked only after load_huggingface returned 0 and export_rkllm only
\* after build returned 0, the status having been checked before.
C6_FixedOrder ==
    /\ objects <= 1
    /\ Len(calls) <= 3
    /\ \A i \in DOMAIN calls :
          /\ calls[i].obj = 1
          /\ calls[i].fn = Order[i]
          /\ i > 1 => calls[i - 1].status = 0
    /\ pc = "build" =>
          Len(calls) = 1 /\ calls[1].status = 0 /\ globals["ret"] = 0
    /\ pc = "export" =>
          Len(calls) = 2 /\ calls[2].status = 0 /\ globals["ret"] = 0

\* All three calls have been made.
C6_Witness ==
    /\ pc = "check_export"
    /\ Len(calls) = 3
    /\ objects = 1

(***************************************************************************)
(* C7 -- no retries, no recovery.                                          *)
(***************************************************************************)

\* C7: each of load_huggingface, build and export_rkllm is invoked at most
\* once, and a call that returned a non-zero status is the last library call
\* of the run.
C7_NoRetryNoRecovery ==
    /\ \A fn \in Steps : NumCalls(fn) <= 1
    /\ \A i \in DOMAIN calls : calls[i].status # 0 => i = Len(calls)

\* A run that failed at export has exited.
C7_Witness ==
    /\ pc = "exited"
    /\ Len(calls) = 3
    /\ calls[3].status # 0

(***************************************************************************)
(* C8 -- termination in one of four outcomes.                              *)
(***************************************************************************)

FailedAtLoad ==
    /\ Len(calls) = 1
    /\ calls[1].fn = "load_huggingface" /\ calls[1].status # 0

FailedAtBuild ==
    /\ Len(calls) = 2
    /\ calls[1].fn = "load_huggingface" /\ calls[1].status = 0
    /\ calls[2].fn = "build" /\ calls[2].status # 0

FailedAtExport ==
    /\ Len(calls) = 3
    /\ calls[1].fn = "load_huggingface" /\ calls[1].status = 0
    /\ calls[2].fn = "build" /\ calls[2].status = 0
    /\ calls[3].fn = "export_rkllm" /\ calls[3].status # 0
    /\ exitCode # <<0>>

Succeeded ==
    /\ Len(calls) = 3
    /\ FullSuccess
    /\ exitCode = <<0>>

\* C8: every run terminates, and it terminates in exactly one of four
\* outcomes determined by the statuses: failed-at-load (only load invoked),
\* failed-at-build (load and build invoked), failed-at-export (all three
\* invoked, non-zero exit) or success (all three invoked, exit 0).
C8_TerminatesInOneOfFourOutcomes ==
    /\ <>Terminated
    /\ [](Terminated =>
            (IF FailedAtLoad THEN 1 ELSE 0) + (IF FailedAtBuild THEN 1 ELSE 0)
              + (IF FailedAtExport THEN 1 ELSE 0) + (IF Succeeded THEN 1 ELSE 0)
              = 1)

(***************************************************************************)
(* C9 -- the configuration.                                                *)
(***************************************************************************)

\* C9: whatever statuses the library returns, load_huggingface is called
\* with model 'DeepSeek-R1-Distill-Qwen-1.5B', model_lora None and device
\* 'cuda', and build with do_quantization=True, optimization_level=1,
\* quantized_dtype='w8a8', quantized_algorithm='normal',
\* target_platform='rk3588', num_npu_core=3; and a configuration name of the
\* script (every name but ret), once bound, is never rebound or changed.
C9_FixedConfiguration ==
    /\ [](/\ \A i \in DOMAIN calls :
               /\ calls[i].fn = "load_huggingface" =>
                     calls[i].args =
                        [model |-> "DeepSeek-R1-Distill-Qwen-1.5B",
                         model_lora |-> "None", device |-> "cuda"]
               /\ calls[i].fn = "build" =>
                     calls[i].args =
                        [do_quantization |-> TRUE, optimization_level |-> 1,
                         quantized_dtype |-> "w8a8",
                         quantized_algorithm |-> "normal",
                         target_platform |-> "rk3588", num_npu_core |-> 3]
          /\ "modelpath" \in DOMAIN globals =>
                globals["modelpath"] = "DeepSeek-R1-Distill-Qwen-1.5B")
    /\ [][\A n \in (DOMAIN globals) \ {"ret"} :
             n \in DOMAIN globals' /\ globals'[n] = globals[n]]_vars

\* load_huggingface and build have both been called.
C9_Witness ==
    /\ pc = "check_build"
    /\ Invoked("load_huggingface")
    /\ Invoked("build")
    /\ globals["ret"] # 0

(***************************************************************************)
(* C10 -- a failing run is never reported as success.                      *)
(***************************************************************************)

\* C10: the exit code seen by the parent process is 0 if and only if
\* load_huggingface, build and export_rkllm each returned 0.
C10_ExitZeroIffAllZero ==
    Terminated => (exitCode = <<0>> <=> FullSuccess)

====
